---------------------------- MODULE Spec2Model ----------------------------
(***************************************************************************)
(* A model of rust/candid/src/bindings/rust.rs: the Rust binding generator *)
(* of Candid.  Strings are sequences of characters (one-character TLA+     *)
(* strings), so that the identifier sanitizer and the name synthesis act   *)
(* on the characters as the code does.                                     *)
(***************************************************************************)
EXTENDS Integers, Sequences, FiniteSets, TLC

VARIABLES
    pc,         \* position of the modelled call
    id,         \* ident: the argument
    identOut,   \* ident: the text of the returned document
    fs,         \* is_tuple: the argument
    tupleOut,   \* is_tuple: the returned bool
    env,        \* compile: the input TypeEnv, a sequence of [name, ty]
    actor,      \* compile: the input Option<Type>
    res,        \* nominalize_all: the environment being built
    actorOut,   \* nominalize_all: the rewritten actor
    next,       \* nominalize_all: index of the next declaration of env
    hoisted,    \* history: one entry per execution of a hoisting arm
    ppCalls,    \* history: the arguments pp_ty was applied to by compile
    fatal       \* compile: the panics reached (unreachable!(), unwrap())

vars == <<pc, id, identOut, fs, tupleOut, env, actor, res, actorOut, next,
          hoisted, ppCalls, fatal>>

---------------------------------------------------------------------------
(* Bounds *)

\* longest string over Sigma given to ident
MaxLen == 4
\* longest field list given to is_tuple
MaxFields == 3
\* largest numeric label
MaxId == 2
\* most steps building the types of the environment and the actor together
MaxNodes == 3

---------------------------------------------------------------------------
(* Characters and strings *)

Lower == <<"a","b","c","d","e","f","g","h","i","j","k","l","m",
           "n","o","p","q","r","s","t","u","v","w","x","y","z">>
Upper == <<"A","B","C","D","E","F","G","H","I","J","K","L","M",
           "N","O","P","Q","R","S","T","U","V","W","X","Y","Z">>
Digits == <<"0","1","2","3","4","5","6","7","8","9">>

Range(s) == { s[j] : j \in 1..Len(s) }

is_ascii_alphabetic(c) == c \in Range(Lower) \cup Range(Upper)
is_ascii_alphanumeric(c) == is_ascii_alphabetic(c) \/ c \in Range(Digits)

\* "^A" stands for the control character U+0001, "é" for U+00E9
IndexIn(s, c) == CHOOSE j \in 1..Len(s) : s[j] = c

\* the UTF-8 bytes of a character, as str::as_bytes gives them
Utf8(c) ==
    IF c \in Range(Lower) THEN << 96 + IndexIn(Lower, c) >>
    ELSE IF c \in Range(Upper) THEN << 64 + IndexIn(Upper, c) >>
    ELSE IF c \in Range(Digits) THEN << 47 + IndexIn(Digits, c) >>
    ELSE CASE c = "_" -> << 95 >>
           [] c = " " -> << 32 >>
           [] c = "#" -> << 35 >>
           [] c = "^A" -> << 1 >>
           [] c = "é" -> << 195, 169 >>

\* a u32 as its two 16-bit halves (TLC's integers are 32 bits wide)
U32Of(n) == [hi |-> 0, lo |-> n]

\* h.wrapping_mul(223).wrapping_add(b) on a u32
HashStep(h, b) ==
    LET lo == h.lo * 223 + b
    IN  [hi |-> (h.hi * 223 + (lo \div 65536)) % 65536, lo |-> lo % 65536]

RECURSIVE HashBytes(_, _)
HashBytes(h, bs) ==
    IF bs = <<>> THEN h
    ELSE HashBytes(HashStep(h, Head(bs)), Tail(bs))

RECURSIVE HashChars(_, _)
HashChars(h, s) ==
    IF s = <<>> THEN h
    ELSE HashChars(HashBytes(h, Utf8(Head(s))), Tail(s))

\* crate::idl_hash: s = s.wrapping_mul(223).wrapping_add(byte), from 0
idl_hash(s) == HashChars(U32Of(0), s)

\* format!("{}", n) of a u32
RECURSIVE Decimal(_)
Decimal(n) ==
    LET low == (n.hi % 10) * 65536 + n.lo
        q == [hi |-> n.hi \div 10, lo |-> low \div 10]
    IN  IF q = U32Of(0) THEN << Digits[(low % 10) + 1] >>
        ELSE Decimal(q) \o << Digits[(low % 10) + 1] >>

Chars(str) ==
    CASE str = "as" -> <<"a","s">>
      [] str = "break" -> <<"b","r","e","a","k">>
      [] str = "const" -> <<"c","o","n","s","t">>
      [] str = "continue" -> <<"c","o","n","t","i","n","u","e">>
      [] str = "crate" -> <<"c","r","a","t","e">>
      [] str = "else" -> <<"e","l","s","e">>
      [] str = "enum" -> <<"e","n","u","m">>
      [] str = "extern" -> <<"e","x","t","e","r","n">>
      [] str = "false" -> <<"f","a","l","s","e">>
      [] str = "fn" -> <<"f","n">>
      [] str = "for" -> <<"f","o","r">>
      [] str = "if" -> <<"i","f">>
      [] str = "impl" -> <<"i","m","p","l">>
      [] str = "in" -> <<"i","n">>
      [] str = "let" -> <<"l","e","t">>
      [] str = "loop" -> <<"l","o","o","p">>
      [] str = "match" -> <<"m","a","t","c","h">>
      [] str = "mod" -> <<"m","o","d">>
      [] str = "move" -> <<"m","o","v","e">>
      [] str = "mut" -> <<"m","u","t">>
      [] str = "pub" -> <<"p","u","b">>
      [] str = "ref" -> <<"r","e","f">>
      [] str = "return" -> <<"r","e","t","u","r","n">>
      [] str = "self" -> <<"s","e","l","f">>
      [] str = "Self" -> <<"S","e","l","f">>
      [] str = "static" -> <<"s","t","a","t","i","c">>
      [] str = "struct" -> <<"s","t","r","u","c","t">>
      [] str = "super" -> <<"s","u","p","e","r">>
      [] str = "trait" -> <<"t","r","a","i","t">>
      [] str = "true" -> <<"t","r","u","e">>
      [] str = "type" -> <<"t","y","p","e">>
      [] str = "unsafe" -> <<"u","n","s","a","f","e">>
      [] str = "use" -> <<"u","s","e">>
      [] str = "where" -> <<"w","h","e","r","e">>
      [] str = "while" -> <<"w","h","i","l","e">>
      [] str = "async" -> <<"a","s","y","n","c">>
      [] str = "await" -> <<"a","w","a","i","t">>
      [] str = "dyn" -> <<"d","y","n">>
      [] str = "abstract" -> <<"a","b","s","t","r","a","c","t">>
      [] str = "become" -> <<"b","e","c","o","m","e">>
      [] str = "box" -> <<"b","o","x">>
      [] str = "do" -> <<"d","o">>
      [] str = "final" -> <<"f","i","n","a","l">>
      [] str = "macro" -> <<"m","a","c","r","o">>
      [] str = "override" -> <<"o","v","e","r","r","i","d","e">>
      [] str = "priv" -> <<"p","r","i","v">>
      [] str = "typeof" -> <<"t","y","p","e","o","f">>
      [] str = "unsized" -> <<"u","n","s","i","z","e","d">>
      [] str = "virtual" -> <<"v","i","r","t","u","a","l">>
      [] str = "yield" -> <<"y","i","e","l","d">>
      [] str = "try" -> <<"t","r","y">>
      [] str = "inner" -> <<"i","n","n","e","r">>
      [] str = "item" -> <<"i","t","e","m">>
      [] str = "init" -> <<"i","n","i","t">>
      [] str = "arg" -> <<"a","r","g">>
      [] str = "ret" -> <<"r","e","t">>
      [] str = "r#" -> <<"r","#">>
      [] str = "_" -> <<"_">>

---------------------------------------------------------------------------
(* The identifier sanitizer *)

KEYWORDS == <<
    "as", "break", "const", "continue", "crate", "else", "enum", "extern", "false", "fn", "for",
    "if", "impl", "in", "let", "loop", "match", "mod", "move", "mut", "pub", "ref", "return",
    "self", "Self", "static", "struct", "super", "trait", "true", "type", "unsafe", "use", "where",
    "while", "async", "await", "dyn", "abstract", "become", "box", "do", "final", "macro",
    "override", "priv", "typeof", "unsized", "virtual", "yield", "try" >>

KeywordSet == { Chars(KEYWORDS[j]) : j \in 1..Len(KEYWORDS) }

ContextualSet == { Chars("crate"), Chars("self"), Chars("super"), Chars("Self") }

\* a plausible slip: the test over all the characters is left out
ident_first_only(s) ==
    IF \/ s = <<>>
       \/ (~is_ascii_alphabetic(s[1]) /\ s[1] # "_")
    THEN Chars("_") \o Decimal(idl_hash(s)) \o Chars("_")
    ELSE IF s \in ContextualSet THEN s \o Chars("_")
    ELSE IF s \in KeywordSet THEN Chars("r#") \o s
    ELSE s

\* a plausible slip: the keyword table is consulted before the four words
ident_keywords_first(s) ==
    IF \/ s = <<>>
       \/ (~is_ascii_alphabetic(s[1]) /\ s[1] # "_")
       \/ \E j \in 1..Len(s) : ~is_ascii_alphanumeric(s[j]) /\ s[j] # "_"
    THEN Chars("_") \o Decimal(idl_hash(s)) \o Chars("_")
    ELSE IF s \in KeywordSet THEN Chars("r#") \o s
    ELSE IF s \in ContextualSet THEN s \o Chars("_")
    ELSE s

\* a plausible slip: the fallback is taken for the empty string only
ident_no_fallback(s) ==
    IF s = <<>>
    THEN Chars("_") \o Decimal(idl_hash(s)) \o Chars("_")
    ELSE IF s \in ContextualSet THEN s \o Chars("_")
    ELSE IF s \in KeywordSet THEN Chars("r#") \o s
    ELSE s

ident(s) ==
    IF \/ s = <<>>
       \/ (~is_ascii_alphabetic(s[1]) /\ s[1] # "_")
       \/ \E j \in 1..Len(s) : ~is_ascii_alphanumeric(s[j]) /\ s[j] # "_"
    THEN Chars("_") \o Decimal(idl_hash(s)) \o Chars("_")
    ELSE IF s \in ContextualSet THEN s \o Chars("_")
    ELSE IF s \in KeywordSet THEN Chars("r#") \o s
    ELSE s

---------------------------------------------------------------------------
(* Labels, fields and tuples *)

LId(n) == [l |-> "Id", n |-> n, s |-> <<>>]
LUnnamed(n) == [l |-> "Unnamed", n |-> n, s |-> <<>>]
LNamed(s) == [l |-> "Named", n |-> 0, s |-> s]

\* Label::get_id
get_id(lab) == IF lab.l = "Named" THEN idl_hash(lab.s) ELSE U32Of(lab.n)

\* Label's Display, used by id.to_string()
label_to_string(lab) == IF lab.l = "Named" THEN lab.s ELSE Decimal(U32Of(lab.n))

Nat_ == [k |-> "Nat"]
Null_ == [k |-> "Null"]
Field(lab, ty) == [id |-> lab, ty |-> ty]

\* a plausible slip: the test for the empty list is left out
is_tuple_no_empty_check(fields) ==
    \A j \in 1..Len(fields) : get_id(fields[j].id) = U32Of(j - 1)

is_tuple(fields) ==
    IF fields = <<>> THEN FALSE
    ELSE \A j \in 1..Len(fields) : get_id(fields[j].id) = U32Of(j - 1)

---------------------------------------------------------------------------
(* Types.  Option<Type> is a sequence of length 0 (None) or 1 (Some). *)

Var(name) == [k |-> "Var", name |-> name]
Opt(t) == [k |-> "Opt", ty |-> t]
Vec(t) == [k |-> "Vec", ty |-> t]
Record(fields) == [k |-> "Record", fs |-> fields]
Variant(fields) == [k |-> "Variant", fs |-> fields]
Func(modes, args, rets) == [k |-> "Func", modes |-> modes, args |-> args, rets |-> rets]
Service(meths) == [k |-> "Service", meths |-> meths]
Class(args, t) == [k |-> "Class", args |-> args, ty |-> t]

---------------------------------------------------------------------------
(* TypeEnv: an order-preserving map, a sequence of [name, ty] with distinct *)
(* names                                                                    *)

EnvNames(e) == [j \in 1..Len(e) |-> e[j].name]
EnvHas(e, name) == \E j \in 1..Len(e) : e[j].name = name
EnvGet(e, name) == e[CHOOSE j \in 1..Len(e) : e[j].name = name].ty

\* env.0.insert(name, ty): a new name goes last, an existing one is
\* overwritten in place
env_insert(e, name, ty) ==
    IF EnvHas(e, name)
    THEN [j \in 1..Len(e) |-> IF e[j].name = name THEN [name |-> name, ty |-> ty] ELSE e[j]]
    ELSE Append(e, [name |-> name, ty |-> ty])

Err == [k |-> "Err"]

\* TypeEnv::rec_find_type: follow Var until another type or an unbound name;
\* fuel bounds the walk on an environment whose names form a cycle
RECURSIVE rec_find_type(_, _, _)
rec_find_type(e, name, fuel) ==
    IF fuel = 0 \/ ~EnvHas(e, name) THEN Err
    ELSE LET t == EnvGet(e, name)
         IN  IF t.k = "Var" THEN rec_find_type(e, t.name, fuel - 1) ELSE t

\* TypeEnv::as_func
as_func(e, t) ==
    LET u == IF t.k = "Var" THEN rec_find_type(e, t.name, Len(e)) ELSE t
    IN  IF u.k = "Func" THEN u ELSE Err

\* TypeEnv::as_service
RECURSIVE as_service(_, _)
as_service(e, t) ==
    LET u == IF t.k = "Var" THEN rec_find_type(e, t.name, Len(e)) ELSE t
    IN  IF u.k = "Service" THEN u
        ELSE IF t.k = "Class" THEN as_service(e, t.ty)
        ELSE Err

---------------------------------------------------------------------------
(* Nominalization *)

PId(s) == [p |-> "Id", s |-> s]
POpt == [p |-> "Opt", s |-> <<>>]
PVec == [p |-> "Vec", s |-> <<>>]
PRecordField(s) == [p |-> "RecordField", s |-> s]
PVariantField(s) == [p |-> "VariantField", s |-> s]
PFunc(s) == [p |-> "Func", s |-> s]
PInit == [p |-> "Init", s |-> <<>>]

\* name.join("_")
RECURSIVE Join(_)
Join(names) ==
    IF names = <<>> THEN <<>>
    ELSE IF Len(names) = 1 THEN names[1]
    ELSE names[1] \o Chars("_") \o Join(Tail(names))

PathToken(node) ==
    CASE node.p = "Id" -> node.s
      [] node.p \in {"RecordField", "VariantField"} -> node.s
      [] node.p = "Opt" -> Chars("inner")
      [] node.p = "Vec" -> Chars("item")
      [] node.p = "Func" -> node.s
      [] node.p = "Init" -> Chars("init")

path_to_var(path) == Join([j \in 1..Len(path) |-> PathToken(path[j])])

\* path.last(): "None" for the empty path
LastKind(path) == IF path = <<>> THEN "None" ELSE path[Len(path)].p

\* a plausible slip: a record is kept inline wherever it stands
record_inline_always(path, fields) == TRUE

\* the test of the Record arm: keep inline, or else hoist
record_inline(path, fields) ==
    LastKind(path) \in {"None", "VariantField", "Id"} \/ is_tuple(fields)

\* a plausible slip: a variant is kept inline as a variant's payload, as a
\* record is
variant_inline_payload(path) == LastKind(path) \in {"None", "Id", "VariantField"}

\* the test of the Variant arm
variant_inline(path) == LastKind(path) \in {"None", "Id"}

\* The state nominalize threads through the traversal: env, the TypeEnv it
\* writes, and log, the hoists done so far: the name, the aggregate found at
\* the position and the type inserted under the name.
RECURSIVE nominalize(_, _, _)
RECURSIVE nominalize_each(_, _, _, _)

\* iter.map(|ty| { path.push(seg); nominalize(env, path, ty); path.pop() }).collect()
nominalize_each(st, path, segs, tys) ==
    IF tys = <<>> THEN [st |-> st, tys |-> <<>>]
    ELSE LET r == nominalize(st, Append(path, Head(segs)), Head(tys))
             rest == nominalize_each(r.st, path, Tail(segs), Tail(tys))
         IN  [st |-> rest.st, tys |-> <<r.ty>> \o rest.tys]

\* the arm taken by a Record or Variant that is not kept inline
hoist(st, path, t) ==
    LET new_var == path_to_var(path)
        r == nominalize(st, <<PId(new_var)>>, t)
    IN  [st |-> [env |-> env_insert(r.st.env, new_var, r.ty),
                 log |-> Append(r.st.log, [name |-> new_var, agg |-> t, ty |-> r.ty])],
         ty |-> Var(new_var)]

nominalize(st, path, t) ==
    CASE t.k = "Opt" ->
           LET r == nominalize(st, Append(path, POpt), t.ty)
           IN  [st |-> r.st, ty |-> Opt(r.ty)]
      [] t.k = "Vec" ->
           LET r == nominalize(st, Append(path, POpt), t.ty)
           IN  [st |-> r.st, ty |-> Vec(r.ty)]
      [] t.k = "Record" ->
           IF record_inline(path, t.fs)
           THEN LET r == nominalize_each(st, path,
                             [j \in 1..Len(t.fs) |-> PRecordField(label_to_string(t.fs[j].id))],
                             [j \in 1..Len(t.fs) |-> t.fs[j].ty])
                IN  [st |-> r.st,
                     ty |-> Record([j \in 1..Len(t.fs) |-> Field(t.fs[j].id, r.tys[j])])]
           ELSE hoist(st, path, t)
      [] t.k = "Variant" ->
           IF variant_inline(path)
           THEN LET r == nominalize_each(st, path,
                             [j \in 1..Len(t.fs) |-> PVariantField(label_to_string(t.fs[j].id))],
                             [j \in 1..Len(t.fs) |-> t.fs[j].ty])
                IN  [st |-> r.st,
                     ty |-> Variant([j \in 1..Len(t.fs) |-> Field(t.fs[j].id, r.tys[j])])]
           ELSE hoist(st, path, t)
      [] t.k = "Func" ->
           LET a == nominalize_each(st, path,
                        [j \in 1..Len(t.args) |-> PFunc(Chars("arg") \o Decimal(U32Of(j - 1)))],
                        t.args)
               b == nominalize_each(a.st, path,
                        [j \in 1..Len(t.rets) |-> PFunc(Chars("ret") \o Decimal(U32Of(j - 1)))],
                        t.rets)
           IN  [st |-> b.st, ty |-> Func(t.modes, a.tys, b.tys)]
      [] t.k = "Service" ->
           LET r == nominalize_each(st, path,
                        [j \in 1..Len(t.meths) |-> PId(t.meths[j].name)],
                        [j \in 1..Len(t.meths) |-> t.meths[j].ty])
           IN  [st |-> r.st,
                ty |-> Service([j \in 1..Len(t.meths) |->
                                   [name |-> t.meths[j].name, ty |-> r.tys[j]]])]
      [] t.k = "Class" ->
           LET a == nominalize_each(st, path, [j \in 1..Len(t.args) |-> PInit], t.args)
               b == nominalize(a.st, path, t.ty)
           IN  [st |-> b.st, ty |-> Class(a.tys, b.ty)]
      [] OTHER -> [st |-> st, ty |-> t]

---------------------------------------------------------------------------
(* The emitter, as the calls it makes.  A call is the function, its caller *)
(* and its argument; each operator gives the calls made below it when no   *)
(* panic cuts the run short, so a panic is a pp_ty call on a fatal kind.   *)

Call(fn, from, arg) == [fn |-> fn, from |-> from, arg |-> arg]

RECURSIVE pp_ty(_, _)
RECURSIVE pp_record_fields(_, _)

pp_record_fields(fields, from) ==
    { Call("pp_record_fields", from, Record(fields)) }
    \cup UNION { pp_ty(fields[j].ty,
                       IF is_tuple(fields) THEN "pp_record_fields" ELSE "pp_record_field") :
                 j \in 1..Len(fields) }

pp_ty(t, from) ==
    { Call("pp_ty", from, t) }
    \cup CASE t.k \in {"Opt", "Vec"} -> pp_ty(t.ty, "pp_ty")
           [] t.k = "Record" -> pp_record_fields(t.fs, "pp_ty")
           [] OTHER -> {}

pp_variant_field(field) ==
    CASE field.ty.k = "Null" -> {}
      [] field.ty.k = "Record" -> pp_record_fields(field.ty.fs, "pp_variant_field")
      [] OTHER -> pp_ty(field.ty, "pp_variant_field")

pp_variant_fields(fields, from) ==
    { Call("pp_variant_fields", from, Variant(fields)) }
    \cup UNION { pp_variant_field(fields[j]) : j \in 1..Len(fields) }

pp_defs(e) ==
    UNION { CASE e[j].ty.k = "Record" -> pp_record_fields(e[j].ty.fs, "pp_defs")
              [] e[j].ty.k = "Variant" -> pp_variant_fields(e[j].ty.fs, "pp_defs")
              [] OTHER -> pp_ty(e[j].ty, "pp_defs") :
            j \in 1..Len(e) }

pp_function(func) ==
    UNION { pp_ty(func.args[j], "pp_function") : j \in 1..Len(func.args) }
    \cup UNION { pp_ty(func.rets[j], "pp_function") : j \in 1..Len(func.rets) }

\* the two unwrap()s of pp_actor
pp_actor_unwrap_fails(e, a) ==
    LET serv == as_service(e, a)
    IN  \/ serv = Err
        \/ \E j \in 1..Len(serv.meths) : as_func(e, serv.meths[j].ty) = Err

pp_actor(e, a) ==
    LET serv == as_service(e, a)
    IN  IF serv = Err THEN {}
        ELSE UNION { LET func == as_func(e, serv.meths[j].ty)
                     IN  IF func = Err THEN {} ELSE pp_function(func) :
                     j \in 1..Len(serv.meths) }

\* the arms of pp_ty that are unreachable!()
FatalKinds == {"Variant", "Class", "Knot", "Unknown"}

---------------------------------------------------------------------------
(* Inputs *)

\* the strings over alphabet a of length at most n
RECURSIVE StringsUpTo(_, _)
StringsUpTo(a, n) ==
    IF n = 0 THEN { <<>> }
    ELSE LET shorter == StringsUpTo(a, n - 1)
         IN  shorter \cup { <<c>> \o s : c \in a, s \in { t \in shorter : Len(t) = n - 1 } }

Sigma == { "i", "f", "_", "1", " ", "é" }

IdentInputs ==
    StringsUpTo(Sigma, MaxLen)
    \cup KeywordSet
    \cup { k \o <<c>> : k \in KeywordSet, c \in Sigma }
    \cup { <<c>> \o k : k \in KeywordSet, c \in Sigma }
    \cup { Chars("r#") \o k : k \in KeywordSet }

Labels ==
    { LId(n) : n \in 0..MaxId } \cup { LUnnamed(n) : n \in 0..MaxId }
    \cup { LNamed(s) : s \in { <<"f">>, <<>>, <<"^A">> } }

RECURSIVE FieldLists(_)
FieldLists(n) ==
    IF n = 0 THEN { <<>> }
    ELSE LET shorter == FieldLists(n - 1)
         IN  shorter \cup { <<Field(lab, Nat_)>> \o t :
                              lab \in Labels, t \in { u \in shorter : Len(u) = n - 1 } }

---------------------------------------------------------------------------
(* ident and is_tuple as calls *)

InitIdent ==
    /\ pc = "call"
    /\ id \in IdentInputs /\ identOut = <<>>
    /\ fs = <<>> /\ tupleOut = FALSE
    /\ env = <<>> /\ actor = <<>> /\ res = <<>> /\ actorOut = <<>>
    /\ next = 1 /\ hoisted = <<>> /\ ppCalls = {} /\ fatal = {}

CallIdent ==
    /\ pc = "call"
    /\ identOut' = ident(id)
    /\ pc' = "done"
    /\ UNCHANGED <<id, fs, tupleOut, env, actor, res, actorOut, next,
                   hoisted, ppCalls, fatal>>

SpecIdent == InitIdent /\ [][CallIdent]_vars

InitTuple ==
    /\ pc = "call"
    /\ fs \in FieldLists(MaxFields) /\ tupleOut = FALSE
    /\ id = <<>> /\ identOut = <<>>
    /\ env = <<>> /\ actor = <<>> /\ res = <<>> /\ actorOut = <<>>
    /\ next = 1 /\ hoisted = <<>> /\ ppCalls = {} /\ fatal = {}

CallIsTuple ==
    /\ pc = "call"
    /\ tupleOut' = is_tuple(fs)
    /\ pc' = "done"
    /\ UNCHANGED <<id, identOut, fs, env, actor, res, actorOut, next,
                   hoisted, ppCalls, fatal>>

SpecTuple == InitTuple /\ [][CallIsTuple]_vars

---------------------------------------------------------------------------
(* Inputs of compile: environments and actors built in at most MaxNodes    *)
(* steps in all                                                            *)

NameT == <<"T">>
NameTf == <<"T", "_", "f">>
NameMArg0 == <<"m", "_", "a", "r", "g", "0">>
NameLists == { <<NameT>>, <<NameT, NameTf>>, <<NameTf, NameT>>, <<NameT, NameMArg0>> }

LabF == LNamed(<<"f">>)
LabG == LNamed(<<"g">>)
Method(name, t) == [name |-> name, ty |-> t]

\* the types built by exactly n steps, a step wrapping one type
RECURSIVE Sized(_)
Sized(n) ==
    IF n = 0 THEN { Nat_ }
    ELSE LET sub == Sized(n - 1)
         IN  { Opt(t) : t \in sub } \cup { Vec(t) : t \in sub }
             \cup { Record(<<Field(LabF, t), Field(LabG, t)>>) : t \in sub }
             \cup { Record(<<Field(LId(0), t)>>) : t \in sub }
             \cup { Record(<<Field(LId(0), Nat_), Field(LId(2), t)>>) : t \in sub }
             \cup { Record(<<Field(LNamed(<<>>), t)>>) : t \in sub }
             \cup { Variant(<<Field(LabF, Null_), Field(LabG, t)>>) : t \in sub }
             \cup { Func(<<>>, <<t>>, <<t>>) : t \in sub }
             \cup { Service(<<Method(<<"m">>, t)>>) : t \in { u \in sub : u.k \in {"Func", "Var"} } }
             \cup (IF n = 1 THEN { Record(<<>>), Var(NameT) } ELSE {})

\* the actors built by exactly n steps
ActorSized(n) ==
    IF n = 0 THEN { <<>> }
    ELSE { <<Service(<<Method(<<"m">>, t)>>)>> : t \in { u \in Sized(n - 1) : u.k \in {"Func", "Var"} } }
         \cup { <<Class(<<t>>, Service(<<>>))>> : t \in Sized(n - 1) }
         \cup (IF n = 1 THEN { <<Var(NameT)>>, <<Var(NameTf)>> } ELSE {})

\* every type node of t
RECURSIVE Subterms(_)
Subterms(t) ==
    { t } \cup
    CASE t.k \in {"Opt", "Vec"} -> Subterms(t.ty)
      [] t.k \in {"Record", "Variant"} -> UNION { Subterms(t.fs[j].ty) : j \in 1..Len(t.fs) }
      [] t.k = "Func" -> UNION { Subterms(t.args[j]) : j \in 1..Len(t.args) }
                         \cup UNION { Subterms(t.rets[j]) : j \in 1..Len(t.rets) }
      [] t.k = "Service" -> UNION { Subterms(t.meths[j].ty) : j \in 1..Len(t.meths) }
      [] t.k = "Class" -> UNION { Subterms(t.args[j]) : j \in 1..Len(t.args) } \cup Subterms(t.ty)
      [] OTHER -> {}

\* what the type checker guarantees: names are bound and acyclic, a service's
\* methods are functions, the actor is a service
WellFormed(e, a) ==
    LET all == UNION { Subterms(e[j].ty) : j \in 1..Len(e) }
                \cup UNION { Subterms(a[j]) : j \in 1..Len(a) }
    IN  /\ \A t \in all :
              /\ t.k = "Var" => rec_find_type(e, t.name, Len(e)) # Err
              /\ t.k = "Service" => \A j \in 1..Len(t.meths) : as_func(e, t.meths[j].ty) # Err
        /\ \A j \in 1..Len(a) : as_service(e, a[j]) # Err

\* the ways to write n as an ordered sum of k naturals
RECURSIVE Splits(_, _)
Splits(k, n) ==
    IF k = 0 THEN (IF n = 0 THEN { <<>> } ELSE {})
    ELSE UNION { { <<j>> \o r : r \in Splits(k - 1, n - j) } : j \in 0..n }

RECURSIVE EnvsOf(_, _)
EnvsOf(names, sizes) ==
    IF names = <<>> THEN { <<>> }
    ELSE { <<[name |-> Head(names), ty |-> t]>> \o r :
             t \in Sized(Head(sizes)), r \in EnvsOf(Tail(names), Tail(sizes)) }

---------------------------------------------------------------------------
(* compile: nominalize_all, one declaration at a time, then the emitter *)

InitCompile ==
    /\ pc = "nominalize"
    /\ \E names \in NameLists : \E n \in 0..MaxNodes : \E sp \in Splits(Len(names) + 1, n) :
          /\ env \in EnvsOf(names, SubSeq(sp, 1, Len(names)))
          /\ actor \in ActorSized(sp[Len(names) + 1])
          /\ WellFormed(env, actor)
    /\ res = <<>> /\ actorOut = <<>> /\ next = 1
    /\ hoisted = <<>> /\ ppCalls = {} /\ fatal = {}
    /\ id = <<>> /\ identOut = <<>>
    /\ fs = <<>> /\ tupleOut = FALSE

Tagged(root, log) == [j \in 1..Len(log) |-> [root |-> root, name |-> log[j].name,
                                             agg |-> log[j].agg, ty |-> log[j].ty]]

\* a plausible slip: the rewritten declaration is not inserted
NominalizeDecl_no_insert ==
    /\ pc = "nominalize"
    /\ next <= Len(env)
    /\ LET r == nominalize([env |-> res, log |-> <<>>], <<PId(env[next].name)>>, env[next].ty)
       IN  /\ res' = r.st.env
           /\ hoisted' = hoisted \o Tagged(<<env[next].name>>, r.st.log)
    /\ next' = next + 1
    /\ UNCHANGED <<pc, id, identOut, fs, tupleOut, env, actor, actorOut, ppCalls, fatal>>

\* one iteration of the loop over env.0.iter()
NominalizeDecl ==
    /\ pc = "nominalize"
    /\ next <= Len(env)
    /\ LET r == nominalize([env |-> res, log |-> <<>>], <<PId(env[next].name)>>, env[next].ty)
       IN  /\ res' = env_insert(r.st.env, env[next].name, r.ty)
           /\ hoisted' = hoisted \o Tagged(<<env[next].name>>, r.st.log)
    /\ next' = next + 1
    /\ UNCHANGED <<pc, id, identOut, fs, tupleOut, env, actor, actorOut, ppCalls, fatal>>

\* actor.as_ref().map(|ty| nominalize(&mut res, &mut vec![], ty.clone()))
NominalizeActor ==
    /\ pc = "nominalize"
    /\ next > Len(env)
    /\ IF actor = <<>>
       THEN UNCHANGED <<res, actorOut, hoisted>>
       ELSE LET r == nominalize([env |-> res, log |-> <<>>], <<>>, actor[1])
            IN  /\ res' = r.st.env
                /\ actorOut' = <<r.ty>>
                /\ hoisted' = hoisted \o Tagged(<<>>, r.st.log)
    /\ pc' = "emit"
    /\ UNCHANGED <<id, identOut, fs, tupleOut, env, actor, next, ppCalls, fatal>>

\* the rest of compile: pp_defs, and pp_actor when there is an actor
Emit ==
    /\ pc = "emit"
    /\ LET calls == pp_defs(res) \cup (IF actorOut = <<>> THEN {} ELSE pp_actor(res, actorOut[1]))
       IN  /\ ppCalls' = calls
           /\ fatal' = { "unreachable" : c \in { d \in calls : d.fn = "pp_ty" /\ d.arg.k \in FatalKinds } }
                       \cup { "unwrap" : a \in { b \in Range(actorOut) : pp_actor_unwrap_fails(res, b) } }
    /\ pc' = "done"
    /\ UNCHANGED <<id, identOut, fs, tupleOut, env, actor, res, actorOut, next, hoisted>>

NextCompile == NominalizeDecl \/ NominalizeActor \/ Emit

SpecCompile == InitCompile /\ [][NextCompile]_vars

---------------------------------------------------------------------------
(* Properties *)

IsLetter(c) == c \in Range(Lower) \cup Range(Upper)
IsWordChar(c) == IsLetter(c) \/ c \in Range(Digits) \/ c = "_"
HashForm(s) == <<"_">> \o Decimal(idl_hash(s)) \o <<"_">>

\* the fallback condition as the specification words it
FallbackAsWorded(s) ==
    \/ s = <<>>
    \/ ~IsLetter(s[1])
    \/ \E j \in 1..Len(s) : ~IsWordChar(s[j])

\* the fallback condition with a leading underscore allowed
FallbackCondition(s) ==
    \/ s = <<>>
    \/ ~(IsLetter(s[1]) \/ s[1] = "_")
    \/ \E j \in 1..Len(s) : ~IsWordChar(s[j])

\* C2 as stated: every name that is empty, does not start with an ASCII
\* letter, or holds a character other than a letter, digit or underscore is
\* replaced by "_" + hash + "_"; a leading underscore falls in this case.
C2_FallbackAsWorded ==
    (pc = "done" /\ FallbackAsWorded(id)) => identOut = HashForm(id)

\* C2 amended: every name that is empty, starts with a character that is
\* neither an ASCII letter nor an underscore, or holds a character other than
\* a letter, digit or underscore is replaced by "_" + hash + "_".
C2_Fallback ==
    (pc = "done" /\ FallbackCondition(id)) => identOut = HashForm(id)

C2_Witness ==
    /\ pc = "done"
    /\ id = <<"1", "f">>
    /\ identOut = <<"_", "1", "1", "0", "2", "9", "_">>

FourWords == { <<"c","r","a","t","e">>, <<"s","e","l","f">>,
               <<"s","u","p","e","r">>, <<"S","e","l","f">> }

\* C3: a name that does not take the fallback becomes name + "_" when it is
\* one of crate, self, super, Self (although the 51-entry keyword table holds
\* them too), "r#" + name when it is another entry of the table, and stays
\* as it is otherwise; the result for an ordinary keyword differs from the
\* keyword and is the result for no other input.
C3_Keywords ==
    /\ Len(KEYWORDS) = 51
    /\ FourWords \subseteq KeywordSet
    /\ (pc = "done" /\ ~FallbackCondition(id)) =>
          IF id \in FourWords THEN identOut = id \o <<"_">>
          ELSE IF id \in KeywordSet
               THEN /\ identOut = <<"r", "#">> \o id
                    /\ identOut # id
                    /\ \A other \in IdentInputs \ {id} : ident(other) # identOut
               ELSE identOut = id

C3_Witness ==
    /\ pc = "done"
    /\ id = <<"s","e","l","f">>
    /\ identOut = <<"s","e","l","f","_">>

\* the identifier grammar: a letter or underscore, or the marker r#, then
\* letters, digits and underscores
IdentGrammar(s) ==
    /\ s # <<>>
    /\ \/ (IsLetter(s[1]) \/ s[1] = "_") /\ \A j \in 2..Len(s) : IsWordChar(s[j])
       \/ Len(s) >= 2 /\ s[1] = "r" /\ s[2] = "#" /\ \A j \in 3..Len(s) : IsWordChar(s[j])

\* C4: for every input, the empty string, a leading digit, a space and a
\* non-ASCII character included, the sanitizer returns a non-empty string of
\* the identifier grammar.
C4_Grammar == pc = "done" => IdentGrammar(identOut)

C4_Witness ==
    /\ pc = "done"
    /\ id = <<"1", " ", "é">>
    /\ identOut = HashForm(id)
    /\ Len(identOut) > 2

\* the id of a label: the number of a numeric label, the hash of a name
LabelIdIs(lab, n) ==
    \/ lab.l \in {"Id", "Unnamed"} /\ lab.n = n
    \/ lab.l = "Named" /\ idl_hash(lab.s) = [hi |-> 0, lo |-> n]

NumericInOrder(fields) ==
    \A j \in 1..Len(fields) : fields[j].id.l \in {"Id", "Unnamed"} /\ fields[j].id.n = j - 1

TupleShaped(fields) ==
    fields # <<>> /\ \A j \in 1..Len(fields) : LabelIdIs(fields[j].id, j - 1)

\* C5 as stated: is_tuple is true exactly when the labels, in declared
\* order, are the numeric labels 0..n-1, the empty list (n = 0) included.
C5_TupleAsWorded == pc = "done" => (tupleOut <=> NumericInOrder(fs))

\* C5 amended: is_tuple is true exactly when the list is not empty and the
\* id of the label at each position i (the number of a numeric label, the
\* hash of a textual one) is i.
C5_Tuple == pc = "done" => (tupleOut <=> TupleShaped(fs))

C5_Witness ==
    /\ pc = "done"
    /\ fs = <<Field(LId(0), Nat_), Field(LUnnamed(1), Nat_)>>
    /\ tupleOut

AfterNominalize == pc \in {"emit", "done"}
IsAggregate(t) == t.k \in {"Record", "Variant"}

\* where: "root" for the value of an environment entry, "payload" for the
\* type of a variant's field, "nested" for every other place
RECURSIVE Sanctioned(_, _)
Sanctioned(t, where) ==
    CASE t.k = "Record" ->
           /\ where \in {"root", "payload"} \/ TupleShaped(t.fs)
           /\ \A j \in 1..Len(t.fs) : Sanctioned(t.fs[j].ty, "nested")
      [] t.k = "Variant" ->
           /\ where = "root"
           /\ \A j \in 1..Len(t.fs) : Sanctioned(t.fs[j].ty, "payload")
      [] t.k \in {"Opt", "Vec"} -> Sanctioned(t.ty, "nested")
      [] t.k = "Func" ->
           /\ \A j \in 1..Len(t.args) : Sanctioned(t.args[j], "nested")
           /\ \A j \in 1..Len(t.rets) : Sanctioned(t.rets[j], "nested")
      [] t.k = "Service" -> \A j \in 1..Len(t.meths) : Sanctioned(t.meths[j].ty, "nested")
      [] t.k = "Class" ->
           /\ \A j \in 1..Len(t.args) : Sanctioned(t.args[j], "nested")
           /\ Sanctioned(t.ty, "nested")
      [] OTHER -> TRUE

RECURSIVE Places(_, _)
Places(path, t) ==
    { [path |-> path, ty |-> t] } \cup
    CASE t.k = "Opt" -> Places(Append(path, POpt), t.ty)
      [] t.k = "Vec" -> Places(Append(path, PVec), t.ty)
      [] t.k = "Record" ->
           UNION { Places(Append(path, PRecordField(label_to_string(t.fs[j].id))), t.fs[j].ty) :
                   j \in 1..Len(t.fs) }
      [] t.k = "Variant" ->
           UNION { Places(Append(path, PVariantField(label_to_string(t.fs[j].id))), t.fs[j].ty) :
                   j \in 1..Len(t.fs) }
      [] t.k = "Func" ->
           UNION { Places(Append(path, PFunc(<<"a","r","g">> \o Decimal(U32Of(j - 1)))), t.args[j]) :
                   j \in 1..Len(t.args) }
           \cup UNION { Places(Append(path, PFunc(<<"r","e","t">> \o Decimal(U32Of(j - 1)))), t.rets[j]) :
                        j \in 1..Len(t.rets) }
      [] t.k = "Service" ->
           UNION { Places(Append(path, PId(t.meths[j].name)), t.meths[j].ty) :
                   j \in 1..Len(t.meths) }
      [] t.k = "Class" ->
           UNION { Places(Append(path, PInit), t.args[j]) : j \in 1..Len(t.args) }
           \cup Places(path, t.ty)
      [] OTHER -> {}

\* the places of the input traversed from root: a declaration's name, or
\* <<>> for the actor
PlacesFrom(root) ==
    IF root = <<>> THEN UNION { Places(<<>>, actor[j]) : j \in 1..Len(actor) }
    ELSE Places(<<PId(root[1])>>, EnvGet(env, root[1]))

\* C6: the name of every hoisted aggregate is the underscore-join of the
\* tokens of the path to its place: names and labels as they are, "inner"
\* for an optional step, "item" for a sequence step, "init" for a
\* constructor argument.
C6_NameFollowsPath ==
    AfterNominalize =>
        \A j \in 1..Len(hoisted) :
            \E place \in PlacesFrom(hoisted[j].root) :
                /\ place.ty = hoisted[j].agg
                /\ path_to_var(place.path) = hoisted[j].name

\* C9: the output environment maps the name of every hoisted aggregate to
\* the nominalized form of that aggregate.
C9_HoistedTypeKept ==
    AfterNominalize =>
        \A j \in 1..Len(hoisted) :
            /\ EnvHas(res, hoisted[j].name)
            /\ EnvGet(res, hoisted[j].name) = hoisted[j].ty

IndexOf(e, name) == CHOOSE j \in 1..Len(e) : e[j].name = name

\* C7: the output lists the input's names in the input's order, a name
\* hoisted while a declaration is traversed lies after the declarations
\* before it and not after the declaration itself, and a name hoisted while
\* the actor is traversed lies after every input name.
C7_Order ==
    AfterNominalize =>
        /\ \A a, b \in 1..Len(env) :
              a < b => IndexOf(res, env[a].name) < IndexOf(res, env[b].name)
        /\ \A j \in 1..Len(hoisted) :
              LET h == hoisted[j]
              IN  IF h.root = <<>>
                  THEN \A a \in 1..Len(env) : IndexOf(res, env[a].name) < IndexOf(res, h.name)
                  ELSE /\ IndexOf(res, h.name) < IndexOf(res, h.root[1])
                       /\ \A a \in 1..(IndexOf(env, h.root[1]) - 1) :
                             IndexOf(res, env[a].name) < IndexOf(res, h.name)

\* no field of a declaration's body holds a Record or Variant, at any depth
FlatInput ==
    /\ actor = <<>>
    /\ \A j \in 1..Len(env) :
          /\ IsAggregate(env[j].ty)
          /\ \A x \in 1..Len(env[j].ty.fs) :
                \A t \in Subterms(env[j].ty.fs[x].ty) : ~IsAggregate(t)

\* C8: an environment of Records and Variants whose fields hold no Record
\* or Variant, with no actor, nominalizes to itself, and nothing is hoisted.
C8_RoundTrip ==
    (AfterNominalize /\ FlatInput) => (res = env /\ hoisted = <<>>)

C8_Witness ==
    /\ pc = "done"
    /\ FlatInput
    /\ Len(env) = 2
    /\ env[1].ty.k = "Record" /\ Len(env[1].ty.fs) = 2 /\ env[1].ty.fs[1].ty.k = "Opt"
    /\ env[2].ty.k = "Variant"
    /\ res = env

===========================================================================
